---- MODULE Spec2Model ----
(***************************************************************************)
(* A model of the ESC/POS command encoder of cesqpos (EscPosEncoder, the   *)
(* barcode encoder and their callers).  Every exported encoder function is *)
(* a pure operator computed as the TypeScript computes it; a caller calls  *)
(* one function at a time (pc "idle" -> "done"), reads what it returned or *)
(* that it threw, and goes back to "idle".                                 *)
(*                                                                         *)
(* A call's outcome is a record: status "returned" with the returned array *)
(* in value, or status "threw" (an AssertionError or Error left the        *)
(* function, nothing was returned).  The elements of a returned array are  *)
(* JavaScript numbers; the integers of the model are exactly those, and    *)
(* the one non-number an array can hold, undefined, is the integer         *)
(* Undefined, which lies outside every range the encoder handles.          *)
(***************************************************************************)
EXTENDS Integers, Sequences, FiniteSets, TLC

VARIABLES
    pc,       \* "idle": the caller is between two calls; "done": a call has ended
    fn,       \* the name of the function called last
    args,     \* the arguments of that call, in order
    result,   \* what the call did: returned an array, or threw
    console,  \* the number of lines written with console.log so far
    mode,     \* the mode the commands the caller has taken so far put the printer in
    memo,     \* an earlier call, with its outcome and the mode it was made in
    items,    \* the array literal the caller is writing: numbers and nested arrays
    listed,   \* the byte sequences the caller has listed in it, in the caller's order
    passes,   \* how many times the literal was flattened and spread into a new one
    buffer,   \* the Buffer made of the literal, once it is made
    attached, \* the USB devices on the bus
    made,     \* the EscPosUSB instances constructed
    device,   \* this.device of each instance
    endpoint, \* this.endpoint of each instance
    listeners,\* the instances whose 'detach' listener is registered with usb
    opened,   \* whether an open() of the instance has set the endpoint, or how its last one ended
    op,       \* the last operation on an instance, with its arguments
    calls,    \* the invocations of the callback made by that operation, in order
    transfers \* the transfers that operation started

\* the caller's array literal and the Buffer made of it
assembly == <<items, listed, passes, buffer>>

\* the USB transport
transport ==
    <<attached, made, device, endpoint, listeners, opened, op, calls, transfers>>

vars == <<pc, fn, args, result, console, mode, memo, assembly, transport>>

\* what no call of an encoder function touches
untouched == <<mode, memo, assembly, transport>>

----------------------------------------------------------------------------
(* Bounds of the model *)

\* how far beyond each end of a parameter's range the arguments go
Margin == 2
\* console.log lines after which the model stops calling a function that logs
MaxConsole == 1
\* widest and tallest raster grid enumerated cell by cell
MaxWidth == 10
MaxHeight == 2
\* longest bit-image strip enumerated byte by byte
MaxStripLen == 4
\* most commands listed in one array literal after init
MaxCommands == 3
\* most interfaces of a USB device
MaxInterfaces == 2
\* widest and tallest decoded image enumerated pixel by pixel
MaxImageWidth == 2
MaxImageHeight == 2

----------------------------------------------------------------------------
(* JavaScript values *)

\* the value undefined: a missing argument, a missing key of a mapping table
Undefined == -1000000

\* a string-typed argument that the caller left out
AbsentName == "(absent)"

\* x >= c and x <= c as JavaScript compares numbers: false when x is undefined
GE(x, c) == x # Undefined /\ x >= c
LE(x, c) == x # Undefined /\ x <= c
GT(x, c) == x # Undefined /\ x > c

\* a parameter with a default value: the default replaces undefined only
Default(x, d) == IF x = Undefined THEN d ELSE x
DefaultName(x, d) == IF x = AbsentName THEN d ELSE x

\* map[key] of a mapping table: undefined for a key the table does not hold
Lookup(map, key) == IF key \in DOMAIN map THEN map[key] ELSE Undefined

\* +flag: a boolean as a number
Num(flag) == IF flag THEN 1 ELSE 0

\* x ? 1 : 0 of a number: 0 and undefined are falsy
Truthy(x) == x # 0 /\ x # Undefined

\* an array-typed argument that the caller left out
AbsentArray == <<Undefined>>

\* a 32-bit operand of a bitwise operator: undefined counts as 0
ToInt32(x) == IF x = Undefined THEN 0 ELSE x

RECURSIVE BitAnd(_, _)
\* a & b for non-negative operands
BitAnd(a, b) ==
    IF a = 0 \/ b = 0 THEN 0
    ELSE (a % 2) * (b % 2) + 2 * BitAnd(a \div 2, b \div 2)

\* the outcome of a call
Returned(bytes) == [status |-> "returned", value |-> bytes]
Threw == [status |-> "threw", value |-> <<>>]
NoCall == [status |-> "none", value |-> <<>>]

\* assert(cond) followed by the rest of the function
Asserting(cond, rest) == IF cond THEN rest ELSE Threw

RECURSIVE Flatten(_)
Flatten(parts) ==
    IF parts = <<>> THEN <<>> ELSE Head(parts).value \o Flatten(Tail(parts))

\* [...prefix, ...part1, ...part2, ...]: a part that threw ends the function
Spread(prefix, parts) ==
    IF \E i \in DOMAIN parts : parts[i].status = "threw"
    THEN Threw
    ELSE Returned(prefix \o Flatten(parts))

----------------------------------------------------------------------------
(* Control codes *)

LF == 10
ESC == 27
FS == 28
GS == 29

fontMap == [A |-> 0, B |-> 1]

----------------------------------------------------------------------------
(* The numeric codec *)

\* a plausible slip: the bytes in big-endian order
byteSplit_swapped(n) ==
    Asserting(GE(n, 0),
    Asserting(LE(n, 65535),
        Returned(<<n \div 256, n % 256>>)))

\* a plausible slip: the low byte taken modulo 255
byteSplit_mod255(n) ==
    Asserting(GE(n, 0),
    Asserting(LE(n, 65535),
        Returned(<<n % 255, n \div 256>>)))

byteSplit(n) ==
    Asserting(GE(n, 0),
    Asserting(LE(n, 65535),
        LET highByte == n \div 256
            lowByte == n % 256
        IN  Returned(<<lowByte, highByte>>)))

----------------------------------------------------------------------------
(* The command encoder, one operator per exported function *)

horizontalTab == Returned(<<9>>)

printAndLineFeed == Returned(<<LF>>)

printAndReturnToStandardModeInPageMode == Returned(<<12>>)

cancelPrintDataInPageMode == Returned(<<24>>)

\* a variant that tracks the printer's mode and refuses ESC FF in Standard mode
printDataInPageMode_modeChecked == IF mode = "Page" THEN Returned(<<ESC, 12>>) ELSE Threw

printDataInPageMode == Returned(<<ESC, 12>>)

setRightSideCharacterSpacing(n0) ==
    LET n == Default(n0, 0)
    IN  Asserting(GT(n, 0) /\ LE(n, 255),
            Returned(<<ESC, 32, n>>))

\* n &= x, five times over, from n = 0; (+flag) << k is Num(flag) * 2^k
selectPrintModes(font, emphasised, doubleHeight, doubleWidth, underlined) ==
    LET n0 == 0
        n1 == BitAnd(n0, ToInt32(Lookup(fontMap, font)))
        n2 == BitAnd(n1, Num(emphasised) * 8)
        n3 == BitAnd(n2, Num(doubleHeight) * 16)
        n4 == BitAnd(n3, Num(doubleWidth) * 32)
        n5 == BitAnd(n4, Num(underlined) * 128)
    IN  Returned(<<ESC, 32, n5>>)

setAbsolutePrintPosition(value) ==
    Spread(<<ESC, 36>>, <<byteSplit(value)>>)

selectUserDefinedCharacterSet(enable) ==
    LET n == IF enable THEN 1 ELSE 0
    IN  Returned(<<ESC, 37, n>>)

underline(enable, thickness0) ==
    LET thickness == Default(thickness0, 1)
    IN  Asserting(GT(thickness, 0) /\ LE(thickness, 2),
            IF enable THEN Returned(<<ESC, 45, thickness>>)
            ELSE Returned(<<ESC, 45, 0>>))

selectDefaultLineSpacing == Returned(<<ESC, 50>>)

setLineSpacing(units) ==
    IF units = Undefined THEN selectDefaultLineSpacing
    ELSE Asserting(GE(units, 0),
         Asserting(LE(units, 255),
             Returned(<<ESC, 51, units>>)))

cancelUserDefinedCharacters(n) ==
    Asserting(GE(n, 32),
    Asserting(LE(n, 126),
        Returned(<<ESC, 63, n>>)))

initialise == Returned(<<ESC, 64>>)

DEFAULT_TAB_STOPS == [i \in 1..31 |-> 8 * i]

\* a variant that refuses a list of 32 entries and ends the list with no NUL
setHorizontalTabPositions_short(tabStops0) ==
    LET tabStops == IF tabStops0 = AbsentArray THEN DEFAULT_TAB_STOPS ELSE tabStops0
    IN  Asserting(Len(tabStops) < 32,
        Asserting(\A i \in DOMAIN tabStops : GE(tabStops[i], 1) /\ LE(tabStops[i], 255),
            Returned(<<ESC, 68>> \o tabStops)))

setHorizontalTabPositions(tabStops0) ==
    LET tabStops == IF tabStops0 = AbsentArray THEN DEFAULT_TAB_STOPS ELSE tabStops0
    IN  Asserting(Len(tabStops) <= 32,
        Asserting(\A i \in DOMAIN tabStops : GE(tabStops[i], 1) /\ LE(tabStops[i], 255),
            Returned(<<ESC, 68>> \o tabStops \o <<0>>)))

bold(enable) == Returned(<<ESC, 69, IF enable THEN 1 ELSE 0>>)

doubleStrike(enable) == Returned(<<ESC, 71, IF enable THEN 1 ELSE 0>>)

printAndFeedPaper(n0) ==
    LET n == Default(n0, 0)
    IN  Asserting(GE(n, 0),
        Asserting(LE(n, 255),
            Returned(<<ESC, 74, n>>)))

\* a variant that tracks the printer's mode and refuses ESC L in Page mode
selectPageMode_modeChecked == IF mode = "Page" THEN Threw ELSE Returned(<<ESC, 76>>)

selectPageMode == Returned(<<ESC, 76>>)

selectFont(font) == Returned(<<ESC, 77, Lookup(fontMap, font)>>)

internationalCharacterSetMap ==
    [n \in {"usa", "france", "germany", "uk", "denmark-1", "sweden", "italy",
            "spain-1", "japan", "norway", "denmark-2", "spain-2",
            "latin-america", "korea", "slovenia-croatia", "china"} |->
        CASE n = "usa" -> 0 [] n = "france" -> 1 [] n = "germany" -> 2
          [] n = "uk" -> 3 [] n = "denmark-1" -> 4 [] n = "sweden" -> 5
          [] n = "italy" -> 6 [] n = "spain-1" -> 7 [] n = "japan" -> 8
          [] n = "norway" -> 9 [] n = "denmark-2" -> 10 [] n = "spain-2" -> 11
          [] n = "latin-america" -> 12 [] n = "korea" -> 13
          [] n = "slovenia-croatia" -> 14 [] n = "china" -> 15]

selectInternationalCharacterSet(characterSet) ==
    Returned(<<ESC, 82, Lookup(internationalCharacterSetMap, characterSet)>>)

selectStandardMode(n) == Returned(<<ESC, 83, n>>)

selectPrintDirectionInPageMode(n) ==
    Asserting(GT(n, 0),
    Asserting(LE(n, 3),
        Returned(<<ESC, 84, n>>)))

setPrintAreaInPageMode(originX, originY, width, height) ==
    Spread(<<ESC, 87>>,
           <<byteSplit(originX), byteSplit(originY), byteSplit(width), byteSplit(height)>>)

\* a plausible slip: the displacement shifted by 32767
setRelativePrintPosition_off(d) ==
    Asserting(GE(d, -32768),
    Asserting(LE(d, 32767),
        LET normalised == d + 32767
        IN  Spread(<<ESC, 92>>, <<byteSplit(normalised)>>)))

setRelativePrintPosition(d) ==
    Asserting(GE(d, -32768),
    Asserting(LE(d, 32767),
        LET normalised == d + 32768
        IN  Spread(<<ESC, 92>>, <<byteSplit(normalised)>>)))

justifications == <<"left", "centered", "right">>

\* array.indexOf(x): the first index holding x, counted from 0, or -1
IndexOf(array, x) ==
    IF \E i \in DOMAIN array : array[i] = x
    THEN (CHOOSE i \in DOMAIN array :
              array[i] = x /\ \A j \in DOMAIN array : array[j] = x => i <= j) - 1
    ELSE -1

\* the assertion is justification.includes(justification): a string includes itself
selectJustification(justification0) ==
    LET justification == DefaultName(justification0, "left")
    IN  Asserting(justification = justification,
            LET value == IndexOf(justifications, justification)
            IN  Returned(<<ESC, 97, value>>))

printAndFeedLines(n) ==
    Asserting(GT(n, 0),
    Asserting(LE(n, 255),
        Returned(<<ESC, 100, n>>)))

characterCodeTableMap ==
    [n \in {"pc437-usa-standard-europe", "katakana", "pc850-multilingual",
            "pc860-portuguese", "pc863-canadian-french", "pc865-nordic",
            "wpc1252", "pc866-cyrillic-2", "pc852-latin-2", "pc858-euro",
            "page-255"} |->
        CASE n = "pc437-usa-standard-europe" -> 0 [] n = "katakana" -> 1
          [] n = "pc850-multilingual" -> 2 [] n = "pc860-portuguese" -> 3
          [] n = "pc863-canadian-french" -> 4 [] n = "pc865-nordic" -> 5
          [] n = "wpc1252" -> 16 [] n = "pc866-cyrillic-2" -> 17
          [] n = "pc852-latin-2" -> 18 [] n = "pc858-euro" -> 19
          [] n = "page-255" -> 255]

selectCharacterCodeTable(table) ==
    Returned(<<ESC, 116, Lookup(characterCodeTableMap, table)>>)

setUpsideDown(enable) == Returned(<<ESC, 123, IF enable THEN 1 ELSE 0>>)

\* widthValue << 4 is widthValue * 16: widthValue is at most 112
selectCharacterSize(width0, height0) ==
    LET width == Default(width0, 1)
        height == Default(height0, 1)
    IN  Asserting(GE(width, 1),
        Asserting(LE(width, 8),
        Asserting(GE(height, 1),
        Asserting(LE(height, 8),
            LET widthValue == 16 * (width - 1)
                heightValue == 16 * (height - 1)
                n == (widthValue * 16) + heightValue
            IN  Returned(<<GS, 33, n>>)))))

setAbsoluteVerticalPrintPositionInPageMode(n) ==
    Spread(<<GS, 36>>, <<byteSplit(n)>>)

inverse(enable) == Returned(<<GS, 66, IF enable THEN 1 ELSE 0>>)

printPositionOfHriCharactersMap == [none |-> 0, above |-> 1, below |-> 2, both |-> 3]

selectPrintPositionOfBarcodeHriCharacters(position) ==
    Returned(<<GS, 72, Lookup(printPositionOfHriCharactersMap, position)>>)

setLeftMargin(n) == Spread(<<GS, 76>>, <<byteSplit(n)>>)

setHorizontalAndVerticalMotionUnits(x, y) ==
    Asserting(GT(x, 0),
    Asserting(LE(x, 255),
    Asserting(GT(y, 0),
    Asserting(LE(y, 255),
        Returned(<<GS, 80, x, y>>)))))

\* a variant that emits the feed-and-cut form for a feed of 0 too
cut_alwaysFeeds(feedVertical0) ==
    LET feedVertical == Default(feedVertical0, 0)
    IN  Asserting(GE(feedVertical, 0),
        Asserting(LE(feedVertical, 255),
            Returned(<<GS, 86, 65, feedVertical>>)))

cut(feedVertical0) ==
    LET feedVertical == Default(feedVertical0, 0)
    IN  Asserting(GE(feedVertical, 0),
        Asserting(LE(feedVertical, 255),
            IF feedVertical > 0 THEN Returned(<<GS, 86, 65, feedVertical>>)
            ELSE Returned(<<GS, 86, 1>>)))

\* whether cut(feedVertical0) reaches its console.log line
cutLogs(feedVertical0) ==
    LET feedVertical == Default(feedVertical0, 0)
    IN  GE(feedVertical, 0) /\ LE(feedVertical, 255) /\ ~(feedVertical > 0)

setPrintAreaWidth(width0) ==
    LET width == Default(width0, 0)
    IN  Spread(<<GS, 87>>, <<byteSplit(width)>>)

setRelativeVerticalPrintPositionInPageMode(d) ==
    Asserting(GE(d, -32768),
    Asserting(LE(d, 32767),
        LET normalised == d + 32768
        IN  Spread(<<GS, 92>>, <<byteSplit(normalised)>>)))

setSmoothing(enable) == Returned(<<GS, 98, IF enable THEN 1 ELSE 0>>)

selectFontForBarcodeHriCharacters(font) == Returned(<<GS, 102, Lookup(fontMap, font)>>)

setBarcodeHeight(n) ==
    Asserting(GE(n, 1),
    Asserting(LE(n, 255),
        Returned(<<GS, 104, n>>)))

----------------------------------------------------------------------------
(* The bit-image mode encoder *)

\* a plausible slip: the 24-dot strip length is not checked
selectBitImageMode_unchecked(verticalDensity0, horizontalDensity0, data) ==
    LET verticalDensity == Default(verticalDensity0, 8)
        horizontalDensity == DefaultName(horizontalDensity0, "single")
    IN  Asserting(verticalDensity = 8 \/ verticalDensity = 24,
        Asserting(data # AbsentArray,
            LET value == Len(data) \div (IF verticalDensity = 8 THEN 1 ELSE 3)
                m == (IF verticalDensity = 8 THEN 0 ELSE 32)
                     + (IF horizontalDensity = "single" THEN 0 ELSE 1)
            IN  Spread(<<ESC, 42, m>>, <<byteSplit(value), Returned(data)>>)))

\* data.length / 3 is taken only of a length that 3 divides
\* a variant that counts the strip's bytes where the code counts its columns
selectBitImageMode_rawLength(verticalDensity0, horizontalDensity0, data) ==
    LET verticalDensity == Default(verticalDensity0, 8)
        horizontalDensity == DefaultName(horizontalDensity0, "single")
    IN  Asserting(verticalDensity = 8 \/ verticalDensity = 24,
        Asserting(data # AbsentArray,
        Asserting(verticalDensity = 24 => Len(data) % 3 = 0,
            LET m == (IF verticalDensity = 8 THEN 0 ELSE 32)
                     + (IF horizontalDensity = "single" THEN 0 ELSE 1)
            IN  Spread(<<ESC, 42, m>>, <<byteSplit(Len(data)), Returned(data)>>))))

selectBitImageMode(verticalDensity0, horizontalDensity0, data) ==
    LET verticalDensity == Default(verticalDensity0, 8)
        horizontalDensity == DefaultName(horizontalDensity0, "single")
    IN  Asserting(verticalDensity = 8 \/ verticalDensity = 24,
        Asserting(data # AbsentArray,
        Asserting(verticalDensity = 24 => Len(data) % 3 = 0,
            LET value == Len(data) \div (IF verticalDensity = 8 THEN 1 ELSE 3)
                m == (IF verticalDensity = 8 THEN 0 ELSE 32)
                     + (IF horizontalDensity = "single" THEN 0 ELSE 1)
            IN  Spread(<<ESC, 42, m>>, <<byteSplit(value), Returned(data)>>))))

----------------------------------------------------------------------------
(* The raster image encoder *)

RECURSIVE parseInt2(_)
\* parseInt(binary, 2) of a string of binary digits, first digit most significant
parseInt2(digits) ==
    IF digits = <<>> THEN 0
    ELSE 2 * parseInt2(SubSeq(digits, 1, Len(digits) - 1)) + digits[Len(digits)]

\* s.padEnd(8, '0'): zeros appended until the string is 8 digits long
padEnd8(digits) == digits \o [k \in 1..(8 - Len(digits)) |-> 0]

\* a plausible slip: padStart in place of padEnd
padStart8(digits) == [k \in 1..(8 - Len(digits)) |-> 0] \o digits

\* row.slice(i, i + 8), i counted from 0
slice8(row, i) ==
    LET end == IF i + 8 <= Len(row) THEN i + 8 ELSE Len(row)
    IN  [k \in 1..(end - i) |-> row[i + k]]

\* a plausible slip: the short last byte padded on the left
binary_padStart(row, i) ==
    LET piece == slice8(row, i)
    IN  padStart8([k \in DOMAIN piece |-> IF Truthy(piece[k]) THEN 1 ELSE 0])

\* the string of 8 binary digits made of the pixels row[i .. i + 7]
binary(row, i) ==
    LET piece == slice8(row, i)
    IN  padEnd8([k \in DOMAIN piece |-> IF Truthy(piece[k]) THEN 1 ELSE 0])

\* a plausible slip: Math.floor in place of Math.ceil
widthInBytes_floor(width) == width \div 8

\* Math.ceil(width / 8)
widthInBytes(width) == (width + 7) \div 8

\* the array a: for each row in order, one number per 8 pixels (the rows are
\* of one length when the loops run)
packed(data) ==
    LET wb == widthInBytes(Len(data[1]))
    IN  [k \in 1..(Len(data) * wb) |->
            parseInt2(binary(data[((k - 1) \div wb) + 1], 8 * ((k - 1) % wb)))]

\* a plausible slip: the rows' lengths are not compared
printRasterBitImage_ragged(data, verticalScale0, horizontalScale0) ==
    LET verticalScale == Default(verticalScale0, 1)
        horizontalScale == Default(horizontalScale0, 1)
    IN
    Asserting(Len(data) >= 1,
    Asserting(Len(data) < 65536,
    Asserting(Len(data[1]) >= 1,
    Asserting(Len(data[1]) < 65536,
        LET heightInDots == Len(data)
            m == ((verticalScale - 1) * 2) + (horizontalScale - 1)
        IN  Spread(<<GS, 118, 48, m>>,
                   <<byteSplit(widthInBytes(Len(data[1]))), byteSplit(heightInDots),
                     Returned(packed(data))>>)))))

printRasterBitImage(data, verticalScale0, horizontalScale0) ==
    LET verticalScale == Default(verticalScale0, 1)
        horizontalScale == Default(horizontalScale0, 1)
    IN
    Asserting(Len(data) >= 1,
    Asserting(Len(data) < 65536,
    Asserting(Len(data[1]) >= 1,
    Asserting(Len(data[1]) < 65536,
    Asserting(\A r \in DOMAIN data : Len(data[r]) = Len(data[1]),
        LET heightInDots == Len(data)
            m == ((verticalScale - 1) * 2) + (horizontalScale - 1)
        IN  Spread(<<GS, 118, 48, m>>,
                   <<byteSplit(widthInBytes(Len(data[1]))), byteSplit(heightInDots),
                     Returned(packed(data))>>))))))

----------------------------------------------------------------------------
(* The image converter.  A decoded image is its width, its height and the  *)
(* bytes of its pixels, four a pixel (red, green, blue, alpha), row by row *)

\* png.data[i], i counted from 0: undefined beyond the end of the data
At(data, i) == IF i + 1 \in DOMAIN data THEN data[i + 1] ELSE Undefined

\* a variant that prints the pixels whose red, green and blue are all 0
convertImageToRasterBitImage_black(png) ==
    Returned([y \in 1..png.height |->
                 [x \in 1..png.width |->
                     LET i == ((y - 1) * png.width + (x - 1)) * 4
                         r == At(png.data, i)
                         g == At(png.data, i + 1)
                         b == At(png.data, i + 2)
                         value == Default(r, 0) + Default(g, 0) + Default(b, 0)
                     IN  IF value = 0 THEN 1 ELSE 0]])

convertImageToRasterBitImage(png) ==
    Returned([y \in 1..png.height |->
                 [x \in 1..png.width |->
                     LET i == ((y - 1) * png.width + (x - 1)) * 4
                         r == At(png.data, i)
                         value == Default(r, 0)
                     IN  IF value = 0 THEN 1 ELSE 0]])

----------------------------------------------------------------------------
(* Barcodes.  A string is the sequence of its characters; GS has the value *)
(* the encoder gives it                                                    *)

k == 107

Digits == <<"0", "1", "2", "3", "4", "5", "6", "7", "8", "9">>

\* the UTF-16 code of a character
charCodeAt(c) ==
    IF \E d \in DOMAIN Digits : Digits[d] = c
    THEN 47 + (CHOOSE d \in DOMAIN Digits : Digits[d] = c)
    ELSE CASE c = " " -> 32
           [] c = "/" -> 47
           [] c = ":" -> 58
           [] c = "A" -> 65
           [] c = "a" -> 97

splitToCharCodes(s) == [i \in DOMAIN s |-> charCodeAt(s[i])]

\* a variant that appends the modular check character itself
printBarcodeUpcA_checkDigit(data) ==
    Asserting(Len(data) = 11,
        LET codes == splitToCharCodes(data)
        IN  Asserting(\A i \in DOMAIN codes : codes[i] >= 48 /\ codes[i] <= 57,
                Returned(<<GS, k, 65, Len(codes) + 1>> \o codes \o <<48>>)))

\* a variant that takes every payload of at most 11 characters and lets the
\* two characters next to the digits through
printBarcodeUpcA_lax(data) ==
    Asserting(Len(data) <= 11,
        LET codes == splitToCharCodes(data)
        IN  Asserting(\A i \in DOMAIN codes : codes[i] >= 47 /\ codes[i] <= 58,
                Returned(<<GS, k, 65, Len(codes)>> \o codes)))

printBarcodeUpcA(data) ==
    Asserting(Len(data) = 11,
        LET codes == splitToCharCodes(data)
        IN  Asserting(\A i \in DOMAIN codes : codes[i] >= 48 /\ codes[i] <= 57,
                Returned(<<GS, k, 65, Len(codes)>> \o codes)))

----------------------------------------------------------------------------
(* The arguments the caller passes *)

\* a one-byte parameter: every value of the byte range, the values around it,
\* and no argument at all
ByteArgs == {Undefined} \cup (-Margin..(255 + Margin))

\* a two-byte parameter: the values around the ends of the byte and word ranges
WordArgs ==
    {Undefined} \cup (-Margin..Margin) \cup ((255 - Margin)..(256 + Margin))
        \cup ((65535 - Margin)..(65535 + Margin))

\* a signed displacement: the values around the ends of its range and around 0
OffsetArgs ==
    {Undefined} \cup ((-32768 - Margin)..(-32768 + Margin)) \cup (-Margin..Margin)
        \cup ((32767 - Margin)..(32767 + Margin))

\* every value of the word range and the values around it
AllWordArgs == {Undefined} \cup (-Margin..(65535 + Margin))

\* every signed displacement and the values around the range
AllOffsetArgs == {Undefined} \cup ((-32768 - Margin)..(32767 + Margin))

\* the ends of the word range, for a function of several two-byte parameters
CornerArgs == {-1, 0, 1, 65535, 65536}

\* a character-size multiplier
SizeArgs == {Undefined} \cup ((1 - Margin)..(8 + Margin))

\* the names that are no key of any mapping table
UnknownNames == {"unknown", "undefined"}

FontArgs == DOMAIN fontMap \cup UnknownNames
JustificationArgs == {justifications[i] : i \in DOMAIN justifications}
                         \cup UnknownNames \cup {AbsentName}
CharacterSetArgs == DOMAIN internationalCharacterSetMap \cup UnknownNames
CodeTableArgs == DOMAIN characterCodeTableMap \cup UnknownNames
HriPositionArgs == DOMAIN printPositionOfHriCharactersMap \cup UnknownNames

\* every sequence over S of length 0..n
SeqsUpTo(S, n) == UNION {[1..len -> S] : len \in 0..n}

\* tab-stop lists: no argument, short lists around the ends of the entries'
\* range, and ascending lists around the longest list allowed
TabStopArgs ==
    {AbsentArray} \cup SeqsUpTo({0, 1, 255, 256}, 2)
        \cup {[i \in 1..len |-> i] : len \in (32 - Margin)..(32 + Margin)}

\* bit-image strips: every short strip over two byte values
StripArgs == SeqsUpTo({0, 255}, MaxStripLen)
DensityArgs == {Undefined, 0, 1, 8, 16, 24, 25, 32}
HorizontalDensityArgs == {"single", "double", AbsentName}

\* blank strips around the largest column count of a density
ExtremeStrips(verticalDensity) ==
    {[i \in 1..((verticalDensity \div 8) * columns) |-> 0] : columns \in {65535, 65536}}

\* the uniform rows of width w: blank, all print, all print with a truthy
\* value other than 1, and every second pixel
PatternRows(w) ==
    {[i \in 1..w |-> 0], [i \in 1..w |-> 1], [i \in 1..w |-> 2],
     [i \in 1..w |-> i % 2]}

\* the rows of width w with one single pixel
PixelRows(w) == {[i \in 1..w |-> IF i = j THEN 1 ELSE 0] : j \in 1..w}

\* rectangular grids, cell by cell: one row of any kind, or rows of patterns
RectangularGrids ==
    UNION {[1..1 -> PixelRows(w)] : w \in 1..MaxWidth}
        \cup UNION {[1..h -> PatternRows(w)] : w \in 1..MaxWidth, h \in 1..MaxHeight}

\* grids with no row, with an empty first row, and with rows of two lengths
MalformedGrids ==
    {<<>>}
        \cup UNION {[1..h -> {<<>>}] : h \in 1..MaxHeight}
        \cup {<<[i \in 1..w1 |-> 1], [i \in 1..w2 |-> 1]>> :
                  w1 \in 0..MaxWidth, w2 \in 0..MaxWidth}

\* all-print grids at the ends of the dimensions' range
ExtremeGrids ==
    {[r \in 1..h |-> <<1>>] : h \in {65535, 65536}}
        \cup {<<[i \in 1..w |-> 1]>> : w \in {65535, 65536}}

\* the characters of a barcode payload: the digits, the characters next to
\* them in code order, and some others
Chars == {Digits[d] : d \in DOMAIN Digits} \cup {" ", "/", ":", "A", "a"}

\* the digits 1, 2, ... 9, 0, 1, ... up to length n
DigitRun(n) == [i \in 1..n |-> Digits[(i % 10) + 1]]

\* barcode payloads: digit runs of every length around 11, a run of 11 with
\* any one character replaced, and 11 times the same character
PayloadArgs ==
    {DigitRun(n) : n \in 0..(11 + Margin)}
        \cup {[DigitRun(11) EXCEPT ![p] = c] : p \in 1..11, c \in Chars}
        \cup {[i \in 1..11 |-> c] : c \in Chars}

GridArgs == RectangularGrids \cup MalformedGrids

\* the bytes of w * h pixels: pixel p has red[p], and every pixel has the
\* green, blue and alpha of rest
PixelData(w, h, red, rest) ==
    [n \in 1..(4 * w * h) |->
        IF (n - 1) % 4 = 0 THEN red[((n - 1) \div 4) + 1] ELSE rest[(n - 1) % 4]]

\* decoded images pixel by pixel: every pixel's red is 0 or one other value,
\* with every green, blue and alpha over {0, 255}
FullImages ==
    {[width |-> w, height |-> h, data |-> PixelData(w, h, red, rest)] :
         w \in {w0 \in 1..MaxImageWidth : TRUE}, h \in 1..MaxImageHeight,
         red \in UNION {[1..(MaxImageWidth * MaxImageHeight) -> {0, ink}] : ink \in {1, 255}},
         rest \in [1..3 -> {0, 255}]}

\* images whose data ends early, after any number of bytes
TruncatedImages ==
    {[width |-> MaxImageWidth, height |-> MaxImageHeight,
      data |-> [n \in 1..len |-> 255]] :
         len \in 0..(4 * MaxImageWidth * MaxImageHeight)}

ImageArgs == FullImages \cup TruncatedImages

\* images at the ends of the dimensions' range, no pixel of them decoded
ExtremeImages ==
    {[width |-> w, height |-> 1, data |-> <<>>] : w \in {0, 65535, 65536}}
        \cup {[width |-> 1, height |-> h, data |-> <<>>] : h \in {0, 65535, 65536}}
ScaleArgs == {Undefined, 1, 2}

----------------------------------------------------------------------------
(* The caller *)

----------------------------------------------------------------------------
(* The buffer assembler: the array literal of the print scripts, flattened *)
(* and made into a Buffer                                                  *)

\* the bytes both scripts begin with
init == <<27, 64, 28, 46, 27, 77, 0>>

\* an item of an array literal: a number, or the array a command returned
Number(n) == [kind |-> "number", v |-> <<n>>]
Nested(array) == [kind |-> "array", v |-> array]

RECURSIVE flat_reversed(_)
\* a variant that puts every item before the ones listed before it
flat_reversed(array) ==
    IF array = <<>> THEN <<>>
    ELSE flat_reversed(Tail(array))
             \o (IF Head(array).kind = "array" THEN Head(array).v ELSE <<Head(array).v[1]>>)

RECURSIVE flat(_)
\* array.flat(): the elements of each nested array in place of the array
flat(array) ==
    IF array = <<>> THEN <<>>
    ELSE (IF Head(array).kind = "array" THEN Head(array).v ELSE <<Head(array).v[1]>>)
             \o flat(Tail(array))

\* the byte Buffer.from makes of an array's element: the number modulo 256,
\* and 0 of what is no number
ToUint8(x) == IF x = Undefined THEN 0 ELSE x % 256

BufferFrom(array) == [i \in DOMAIN array |-> ToUint8(array[i])]

NoBuffer == [made |-> FALSE, bytes |-> <<>>]

----------------------------------------------------------------------------
(* The USB transport (EscPosUSB) *)

Devices == {"d1", "d2"}
Instances == {1, 2}

\* this.device and this.endpoint when undefined
NoDevice == "undefined"
NoEndpoint == [device |-> NoDevice, interface |-> 0]

\* the 'out' endpoint of interface j of device d
OutEndpoint(d, j) == [device |-> d, interface |-> j]

\* device.interfaces once the device is open: undefined, or a list of
\* interfaces, each with a claim() that succeeds or throws and with or
\* without an endpoint of direction 'out' (which is looked for only after
\* claim() has succeeded)
NoInterfaces == [defined |-> FALSE, list |-> <<>>]
Interface ==
    {[claim |-> "throws", out |-> FALSE], [claim |-> "ok", out |-> FALSE],
     [claim |-> "ok", out |-> TRUE]}
InterfaceArgs ==
    {NoInterfaces}
        \cup {[defined |-> TRUE, list |-> l] :
                  l \in UNION {[1..n -> Interface] : n \in 0..MaxInterfaces}}

\* the callback argument: the caller's function, or none
CallbackArgs == {"callback", "absent"}

\* callback ?? this.logError
cb(callback) == IF callback = "absent" THEN "logError" ELSE callback

\* one invocation of a callback, with an error or without
Invoked(target, error) == [cb |-> target, error |-> error]

\* the data written
BufferArgs == {<<27, 64>>, <<10>>}

NoOp ==
    [name |-> "", instance |-> 0, callback |-> "absent", data |-> <<>>, threw |-> FALSE]

\* what is kept of an open() that set no endpoint: how it ended, unless an
\* earlier open() of the instance has set the endpoint
Outcome(before, ending) == IF before = "endpoint" THEN before ELSE ending

RECURSIVE claimLoop(_, _, _, _)
\* the for loop of open from interface j on: the invocations it makes and
\* the endpoint it finds
claimLoop(d, list, j, target) ==
    IF j > Len(list) THEN [calls |-> <<>>, found |-> NoEndpoint]
    ELSE IF list[j].claim = "throws"
    THEN LET rest == claimLoop(d, list, j + 1, target)
         IN  [calls |-> <<Invoked(target, TRUE)>> \o rest.calls, found |-> rest.found]
    ELSE IF list[j].out
    THEN [calls |-> <<Invoked(target, FALSE)>>, found |-> OutEndpoint(d, j)]
    ELSE claimLoop(d, list, j + 1, target)

\* new EscPosUSB(vid, pid): findByIds finds the device named d if it is on
\* the bus, and the instance listens for 'detach'
constructor ==
    \E i \in Instances \ made, d \in Devices :
        /\ \A j \in Instances : j < i => j \in made
        /\ made' = made \cup {i}
        /\ device' = [device EXCEPT ![i] = IF d \in attached THEN d ELSE NoDevice]
        /\ listeners' = listeners \cup {i}
        /\ op' = [NoOp EXCEPT !.name = "constructor", !.instance = i]
        /\ calls' = <<>>
        /\ transfers' = <<>>
        /\ UNCHANGED <<attached, endpoint, opened>>
        /\ UNCHANGED <<pc, fn, args, result, console, mode, memo, assembly>>

\* usb emits 'detach' for device d: every listener registered compares it
\* with its instance's device
detach ==
    \E d \in attached :
        /\ attached' = attached \ {d}
        /\ device' = [i \in Instances |->
                          IF i \in listeners /\ device[i] = d THEN NoDevice ELSE device[i]]
        /\ op' = [NoOp EXCEPT !.name = "detach"]
        /\ calls' = <<>>
        /\ transfers' = <<>>
        /\ UNCHANGED <<made, endpoint, listeners, opened>>
        /\ UNCHANGED <<pc, fn, args, result, console, mode, memo, assembly>>

\* open(callback), the device answering device.interfaces with interfaces;
\* device.open() on a device that has left the bus throws
open ==
    \E i \in made, callback \in CallbackArgs, interfaces \in InterfaceArgs :
        LET target == cb(callback)
            walk == claimLoop(device[i], interfaces.list, 1, target)
            found == IF walk.found # NoEndpoint THEN walk.found ELSE endpoint[i]
            thisOp == [NoOp EXCEPT !.name = "open", !.instance = i,
                                   !.callback = callback]
        IN  /\ transfers' = <<>>
            /\ IF device[i] = NoDevice
               THEN /\ calls' = <<Invoked(target, TRUE)>>
                    /\ opened' = [opened EXCEPT ![i] = Outcome(opened[i], "no device")]
                    /\ op' = thisOp
                    /\ interfaces = NoInterfaces
                    /\ UNCHANGED endpoint
               ELSE IF device[i] \notin attached
               THEN /\ calls' = <<>>
                    /\ opened' = [opened EXCEPT ![i] = Outcome(opened[i], "threw")]
                    /\ op' = [thisOp EXCEPT !.threw = TRUE]
                    /\ interfaces = NoInterfaces
                    /\ UNCHANGED endpoint
               ELSE IF ~interfaces.defined
               THEN /\ calls' = <<Invoked(target, TRUE)>>
                    /\ opened' = [opened EXCEPT ![i] = Outcome(opened[i], "no interfaces")]
                    /\ op' = thisOp
                    /\ UNCHANGED endpoint
               ELSE /\ endpoint' = [endpoint EXCEPT ![i] = found]
                    /\ calls' = walk.calls
                                    \o (IF found = NoEndpoint
                                        THEN <<Invoked(target, TRUE)>> ELSE <<>>)
                    /\ opened' = [opened EXCEPT ![i] =
                                      IF walk.found # NoEndpoint THEN "endpoint"
                                      ELSE Outcome(opened[i], "no endpoint")]
                    /\ op' = thisOp
            /\ UNCHANGED <<attached, made, device, listeners>>
            /\ UNCHANGED <<pc, fn, args, result, console, mode, memo, assembly>>

\* a variant that starts the transfer whether or not the endpoint is set
write_unguarded(i, data, callback) ==
    [calls |-> <<>>,
     transfers |-> <<[endpoint |-> endpoint[i], data |-> data, cb |-> cb(callback)]>>]

\* write(data, callback) on instance i: the invocations of the callback it
\* makes itself and the transfers it starts
write(i, data, callback) ==
    IF endpoint[i] = NoEndpoint
    THEN [calls |-> <<Invoked(cb(callback), TRUE)>>, transfers |-> <<>>]
    ELSE [calls |-> <<>>,
          transfers |-> <<[endpoint |-> endpoint[i], data |-> data, cb |-> cb(callback)]>>]

CallWrite ==
    \E i \in made, data \in BufferArgs, callback \in CallbackArgs :
        /\ calls' = write(i, data, callback).calls
        /\ transfers' = write(i, data, callback).transfers
        /\ op' = [NoOp EXCEPT !.name = "write", !.instance = i,
                              !.callback = callback, !.data = data]
        /\ UNCHANGED <<attached, made, device, endpoint, listeners, opened>>
        /\ UNCHANGED <<pc, fn, args, result, console, mode, memo, assembly>>

\* close(callback); device.close() returns or throws
close ==
    \E i \in made, callback \in CallbackArgs, closeThrows \in BOOLEAN :
        /\ transfers' = <<>>
        /\ op' = [NoOp EXCEPT !.name = "close", !.instance = i,
                              !.callback = callback, !.threw = closeThrows]
        /\ IF device[i] = NoDevice
           THEN /\ ~closeThrows
                /\ calls' = <<Invoked(cb(callback), FALSE)>>
                /\ UNCHANGED listeners
           ELSE IF closeThrows
           THEN /\ calls' = <<Invoked(cb(callback), TRUE)>>
                /\ UNCHANGED listeners
           ELSE /\ calls' = <<Invoked(cb(callback), FALSE)>>
                /\ listeners' = {}
        /\ UNCHANGED <<attached, made, device, endpoint, opened>>
        /\ UNCHANGED <<pc, fn, args, result, console, mode, memo, assembly>>

\* no call remembered
NoMemo == [fn |-> "", args |-> <<>>, result |-> NoCall, mode |-> "Standard"]

\* the mode of a printer in mode m once it has processed what the call f
\* returned: ESC L selects Page mode; ESC S, FF and ESC @ select Standard mode
ModeAfter(m, f, r) ==
    IF r.status # "returned" THEN m
    ELSE CASE f = "selectPageMode" -> "Page"
           [] f \in {"selectStandardMode", "printAndReturnToStandardModeInPageMode",
                     "initialise"} -> "Standard"
           [] OTHER -> m

Init ==
    /\ pc = "idle"
    /\ fn = ""
    /\ args = <<>>
    /\ result = NoCall
    /\ console = 0
    /\ mode = "Standard"
    /\ memo = NoMemo
    /\ items = [i \in DOMAIN init |-> Number(init[i])]
    /\ listed = <<init>>
    /\ passes = 0
    /\ buffer = NoBuffer
    /\ attached = Devices
    /\ made = {}
    /\ device = [i \in Instances |-> NoDevice]
    /\ endpoint = [i \in Instances |-> NoEndpoint]
    /\ listeners = {}
    /\ opened = [i \in Instances |-> "never"]
    /\ op = NoOp
    /\ calls = <<>>
    /\ transfers = <<>>

\* the call f(a) ends with outcome r
Call(f, a, r) ==
    /\ pc' = "done"
    /\ fn' = f
    /\ args' = a
    /\ result' = r

\* the caller has read the outcome
Taken ==
    /\ pc = "done"
    /\ pc' = "idle"
    /\ fn' = ""
    /\ args' = <<>>
    /\ result' = NoCall
    /\ mode' = ModeAfter(mode, fn, result)
    /\ UNCHANGED <<console, transport>>

Return ==
    /\ Taken
    /\ UNCHANGED <<memo, assembly>>

\* the caller has read the outcome and keeps it to compare a later call with
ReturnRemembered ==
    /\ Taken
    /\ memo' = [fn |-> fn, args |-> args, result |-> result, mode |-> mode]
    /\ UNCHANGED assembly

CallHorizontalTab ==
    /\ pc = "idle"
    /\ Call("horizontalTab", <<>>, horizontalTab) /\ UNCHANGED <<console, untouched>>

CallPrintAndLineFeed ==
    /\ pc = "idle"
    /\ Call("printAndLineFeed", <<>>, printAndLineFeed) /\ UNCHANGED <<console, untouched>>

CallPrintAndReturnToStandardModeInPageMode ==
    /\ pc = "idle"
    /\ Call("printAndReturnToStandardModeInPageMode", <<>>,
            printAndReturnToStandardModeInPageMode) /\ UNCHANGED <<console, untouched>>

CallCancelPrintDataInPageMode ==
    /\ pc = "idle"
    /\ Call("cancelPrintDataInPageMode", <<>>, cancelPrintDataInPageMode)
           /\ UNCHANGED <<console, untouched>>

CallPrintDataInPageMode ==
    /\ pc = "idle"
    /\ Call("printDataInPageMode", <<>>, printDataInPageMode) /\ UNCHANGED <<console, untouched>>

CallSetRightSideCharacterSpacing ==
    /\ pc = "idle"
    /\ \E n \in ByteArgs :
           Call("setRightSideCharacterSpacing", <<n>>, setRightSideCharacterSpacing(n))
               /\ UNCHANGED <<console, untouched>>

CallSelectPrintModes ==
    /\ pc = "idle"
    /\ \E font \in FontArgs, e \in BOOLEAN, dh \in BOOLEAN, dw \in BOOLEAN, u \in BOOLEAN :
           Call("selectPrintModes", <<font, e, dh, dw, u>>,
                selectPrintModes(font, e, dh, dw, u)) /\ UNCHANGED <<console, untouched>>

CallSetAbsolutePrintPosition ==
    /\ pc = "idle"
    /\ \E value \in WordArgs :
           Call("setAbsolutePrintPosition", <<value>>, setAbsolutePrintPosition(value))
               /\ UNCHANGED <<console, untouched>>

CallSelectUserDefinedCharacterSet ==
    /\ pc = "idle"
    /\ \E enable \in BOOLEAN :
           Call("selectUserDefinedCharacterSet", <<enable>>,
                selectUserDefinedCharacterSet(enable)) /\ UNCHANGED <<console, untouched>>

CallSelectBitImageMode ==
    /\ pc = "idle"
    /\ \E vd \in DensityArgs, hd \in HorizontalDensityArgs,
          data \in StripArgs \cup {AbsentArray} :
           Call("selectBitImageMode", <<vd, hd, data>>, selectBitImageMode(vd, hd, data))
               /\ UNCHANGED <<console, untouched>>

CallUnderline ==
    /\ pc = "idle"
    /\ \E enable \in BOOLEAN, thickness \in {Undefined, 0, 1, 2, 3} :
           Call("underline", <<enable, thickness>>, underline(enable, thickness))
               /\ UNCHANGED <<console, untouched>>

CallSelectDefaultLineSpacing ==
    /\ pc = "idle"
    /\ Call("selectDefaultLineSpacing", <<>>, selectDefaultLineSpacing)
           /\ UNCHANGED <<console, untouched>>

CallSetLineSpacing ==
    /\ pc = "idle"
    /\ \E units \in ByteArgs :
           Call("setLineSpacing", <<units>>, setLineSpacing(units)) /\ UNCHANGED <<console, untouched>>

CallCancelUserDefinedCharacters ==
    /\ pc = "idle"
    /\ \E n \in ByteArgs :
           Call("cancelUserDefinedCharacters", <<n>>, cancelUserDefinedCharacters(n))
               /\ UNCHANGED <<console, untouched>>

CallInitialise ==
    /\ pc = "idle"
    /\ Call("initialise", <<>>, initialise) /\ UNCHANGED <<console, untouched>>

CallSetHorizontalTabPositions ==
    /\ pc = "idle"
    /\ \E tabStops \in TabStopArgs :
           Call("setHorizontalTabPositions", <<tabStops>>,
                setHorizontalTabPositions(tabStops)) /\ UNCHANGED <<console, untouched>>

CallBold ==
    /\ pc = "idle"
    /\ \E enable \in BOOLEAN :
           Call("bold", <<enable>>, bold(enable)) /\ UNCHANGED <<console, untouched>>

CallDoubleStrike ==
    /\ pc = "idle"
    /\ \E enable \in BOOLEAN :
           Call("doubleStrike", <<enable>>, doubleStrike(enable)) /\ UNCHANGED <<console, untouched>>

CallPrintAndFeedPaper ==
    /\ pc = "idle"
    /\ \E n \in ByteArgs :
           Call("printAndFeedPaper", <<n>>, printAndFeedPaper(n)) /\ UNCHANGED <<console, untouched>>

CallSelectPageMode ==
    /\ pc = "idle"
    /\ Call("selectPageMode", <<>>, selectPageMode) /\ UNCHANGED <<console, untouched>>

CallSelectFont ==
    /\ pc = "idle"
    /\ \E font \in FontArgs :
           Call("selectFont", <<font>>, selectFont(font)) /\ UNCHANGED <<console, untouched>>

CallSelectInternationalCharacterSet ==
    /\ pc = "idle"
    /\ \E characterSet \in CharacterSetArgs :
           Call("selectInternationalCharacterSet", <<characterSet>>,
                selectInternationalCharacterSet(characterSet)) /\ UNCHANGED <<console, untouched>>

CallSelectStandardMode ==
    /\ pc = "idle"
    /\ \E n \in ByteArgs :
           Call("selectStandardMode", <<n>>, selectStandardMode(n)) /\ UNCHANGED <<console, untouched>>

CallSelectPrintDirectionInPageMode ==
    /\ pc = "idle"
    /\ \E n \in ByteArgs :
           Call("selectPrintDirectionInPageMode", <<n>>, selectPrintDirectionInPageMode(n))
               /\ UNCHANGED <<console, untouched>>

CallSetPrintAreaInPageMode ==
    /\ pc = "idle"
    /\ \E originX \in CornerArgs, originY \in CornerArgs,
          width \in CornerArgs, height \in CornerArgs :
           Call("setPrintAreaInPageMode", <<originX, originY, width, height>>,
                setPrintAreaInPageMode(originX, originY, width, height))
               /\ UNCHANGED <<console, untouched>>

CallSetRelativePrintPosition ==
    /\ pc = "idle"
    /\ \E d \in OffsetArgs :
           Call("setRelativePrintPosition", <<d>>, setRelativePrintPosition(d))
               /\ UNCHANGED <<console, untouched>>

CallSelectJustification ==
    /\ pc = "idle"
    /\ \E justification \in JustificationArgs :
           Call("selectJustification", <<justification>>,
                selectJustification(justification)) /\ UNCHANGED <<console, untouched>>

CallPrintAndFeedLines ==
    /\ pc = "idle"
    /\ \E n \in ByteArgs :
           Call("printAndFeedLines", <<n>>, printAndFeedLines(n)) /\ UNCHANGED <<console, untouched>>

CallSelectCharacterCodeTable ==
    /\ pc = "idle"
    /\ \E table \in CodeTableArgs :
           Call("selectCharacterCodeTable", <<table>>, selectCharacterCodeTable(table))
               /\ UNCHANGED <<console, untouched>>

CallSetUpsideDown ==
    /\ pc = "idle"
    /\ \E enable \in BOOLEAN :
           Call("setUpsideDown", <<enable>>, setUpsideDown(enable)) /\ UNCHANGED <<console, untouched>>

CallSelectCharacterSize ==
    /\ pc = "idle"
    /\ \E width \in SizeArgs, height \in SizeArgs :
           Call("selectCharacterSize", <<width, height>>,
                selectCharacterSize(width, height)) /\ UNCHANGED <<console, untouched>>

CallSetAbsoluteVerticalPrintPositionInPageMode ==
    /\ pc = "idle"
    /\ \E n \in WordArgs :
           Call("setAbsoluteVerticalPrintPositionInPageMode", <<n>>,
                setAbsoluteVerticalPrintPositionInPageMode(n)) /\ UNCHANGED <<console, untouched>>

CallInverse ==
    /\ pc = "idle"
    /\ \E enable \in BOOLEAN :
           Call("inverse", <<enable>>, inverse(enable)) /\ UNCHANGED <<console, untouched>>

CallSelectPrintPositionOfBarcodeHriCharacters ==
    /\ pc = "idle"
    /\ \E position \in HriPositionArgs :
           Call("selectPrintPositionOfBarcodeHriCharacters", <<position>>,
                selectPrintPositionOfBarcodeHriCharacters(position)) /\ UNCHANGED <<console, untouched>>

CallSetLeftMargin ==
    /\ pc = "idle"
    /\ \E n \in WordArgs :
           Call("setLeftMargin", <<n>>, setLeftMargin(n)) /\ UNCHANGED <<console, untouched>>

CallSetHorizontalAndVerticalMotionUnits ==
    /\ pc = "idle"
    /\ \E x \in {Undefined, 0, 1, 255, 256}, y \in {Undefined, 0, 1, 255, 256} :
           Call("setHorizontalAndVerticalMotionUnits", <<x, y>>,
                setHorizontalAndVerticalMotionUnits(x, y)) /\ UNCHANGED <<console, untouched>>

\* cut writes one line to the console on its default-cut path
CallCut ==
    /\ pc = "idle"
    /\ \E feedVertical \in ByteArgs :
           /\ cutLogs(feedVertical) => console < MaxConsole
           /\ Call("cut", <<feedVertical>>, cut(feedVertical))
           /\ console' = IF cutLogs(feedVertical) THEN console + 1 ELSE console
           /\ UNCHANGED untouched

CallPrintBarcodeUpcA ==
    /\ pc = "idle"
    /\ \E data \in PayloadArgs :
           Call("printBarcodeUpcA", <<data>>, printBarcodeUpcA(data)) /\ UNCHANGED <<console, untouched>>

CallSetPrintAreaWidth ==
    /\ pc = "idle"
    /\ \E width \in WordArgs :
           Call("setPrintAreaWidth", <<width>>, setPrintAreaWidth(width))
               /\ UNCHANGED <<console, untouched>>

CallSetRelativeVerticalPrintPositionInPageMode ==
    /\ pc = "idle"
    /\ \E d \in OffsetArgs :
           Call("setRelativeVerticalPrintPositionInPageMode", <<d>>,
                setRelativeVerticalPrintPositionInPageMode(d)) /\ UNCHANGED <<console, untouched>>

CallSetSmoothing ==
    /\ pc = "idle"
    /\ \E enable \in BOOLEAN :
           Call("setSmoothing", <<enable>>, setSmoothing(enable)) /\ UNCHANGED <<console, untouched>>

CallSelectFontForBarcodeHriCharacters ==
    /\ pc = "idle"
    /\ \E font \in FontArgs :
           Call("selectFontForBarcodeHriCharacters", <<font>>,
                selectFontForBarcodeHriCharacters(font)) /\ UNCHANGED <<console, untouched>>

CallSetBarcodeHeight ==
    /\ pc = "idle"
    /\ \E n \in ByteArgs :
           Call("setBarcodeHeight", <<n>>, setBarcodeHeight(n)) /\ UNCHANGED <<console, untouched>>

CallPrintRasterBitImage ==
    /\ pc = "idle"
    /\ \E data \in GridArgs, verticalScale \in ScaleArgs, horizontalScale \in ScaleArgs :
           Call("printRasterBitImage", <<data, verticalScale, horizontalScale>>,
                printRasterBitImage(data, verticalScale, horizontalScale))
               /\ UNCHANGED <<console, untouched>>

\* the same call on the largest grids, the scales left to their defaults
CallPrintRasterBitImageExtreme ==
    /\ pc = "idle"
    /\ \E data \in ExtremeGrids :
           Call("printRasterBitImage", <<data, Undefined, Undefined>>,
                printRasterBitImage(data, Undefined, Undefined))
               /\ UNCHANGED <<console, untouched>>

Next ==
    \/ CallHorizontalTab
    \/ CallPrintAndLineFeed
    \/ CallPrintAndReturnToStandardModeInPageMode
    \/ CallCancelPrintDataInPageMode
    \/ CallPrintDataInPageMode
    \/ CallSetRightSideCharacterSpacing
    \/ CallSelectPrintModes
    \/ CallSetAbsolutePrintPosition
    \/ CallSelectUserDefinedCharacterSet
    \/ CallSelectBitImageMode
    \/ CallUnderline
    \/ CallSelectDefaultLineSpacing
    \/ CallSetLineSpacing
    \/ CallCancelUserDefinedCharacters
    \/ CallInitialise
    \/ CallSetHorizontalTabPositions
    \/ CallBold
    \/ CallDoubleStrike
    \/ CallPrintAndFeedPaper
    \/ CallSelectPageMode
    \/ CallSelectFont
    \/ CallSelectInternationalCharacterSet
    \/ CallSelectStandardMode
    \/ CallSelectPrintDirectionInPageMode
    \/ CallSetPrintAreaInPageMode
    \/ CallSetRelativePrintPosition
    \/ CallSelectJustification
    \/ CallPrintAndFeedLines
    \/ CallSelectCharacterCodeTable
    \/ CallSetUpsideDown
    \/ CallSelectCharacterSize
    \/ CallSetAbsoluteVerticalPrintPositionInPageMode
    \/ CallInverse
    \/ CallSelectPrintPositionOfBarcodeHriCharacters
    \/ CallSetLeftMargin
    \/ CallSetHorizontalAndVerticalMotionUnits
    \/ CallCut
    \/ CallSetPrintAreaWidth
    \/ CallSetRelativeVerticalPrintPositionInPageMode
    \/ CallSetSmoothing
    \/ CallSelectFontForBarcodeHriCharacters
    \/ CallSetBarcodeHeight
    \/ CallPrintRasterBitImage
    \/ CallPrintBarcodeUpcA
    \/ Return

Spec == Init /\ [][Next]_vars

----------------------------------------------------------------------------
(* Calls made again: the mode-switching and Page-mode commands, cut and a  *)
(* few others, each with a few arguments, so that the caller can remember  *)
(* one call and make it again after any others                             *)

\* the ends of a one-byte parameter's range
EdgeByteArgs == {Undefined, 0, 1, 255, 256}

RepeatSelectStandardMode ==
    /\ pc = "idle"
    /\ \E n \in EdgeByteArgs :
           Call("selectStandardMode", <<n>>, selectStandardMode(n))
               /\ UNCHANGED <<console, untouched>>

RepeatSetAbsoluteVerticalPrintPositionInPageMode ==
    /\ pc = "idle"
    /\ \E n \in CornerArgs :
           Call("setAbsoluteVerticalPrintPositionInPageMode", <<n>>,
                setAbsoluteVerticalPrintPositionInPageMode(n))
               /\ UNCHANGED <<console, untouched>>

RepeatCut ==
    /\ pc = "idle"
    /\ \E feedVertical \in EdgeByteArgs :
           /\ cutLogs(feedVertical) => console < MaxConsole
           /\ Call("cut", <<feedVertical>>, cut(feedVertical))
           /\ console' = IF cutLogs(feedVertical) THEN console + 1 ELSE console
           /\ UNCHANGED untouched

NextHistory ==
    \/ CallPrintAndReturnToStandardModeInPageMode
    \/ CallCancelPrintDataInPageMode
    \/ CallPrintDataInPageMode
    \/ CallInitialise
    \/ CallSelectPageMode
    \/ CallBold
    \/ CallSelectJustification
    \/ RepeatSelectStandardMode
    \/ RepeatSetAbsoluteVerticalPrintPositionInPageMode
    \/ RepeatCut
    \/ Return
    \/ ReturnRemembered

SpecHistory == Init /\ [][NextHistory]_vars

----------------------------------------------------------------------------
(* The caller writes an array literal and makes a Buffer of it *)

\* room for one more command in the literal
Listing == ~buffer.made /\ Len(listed) < 1 + MaxCommands

\* the call is an item of the literal: bold()
TakeNested ==
    /\ Taken
    /\ Listing
    /\ result.status = "returned"
    /\ items' = Append(items, Nested(result.value))
    /\ listed' = Append(listed, result.value)
    /\ UNCHANGED <<memo, passes, buffer>>

\* the call is spread into the literal: ...cut()
TakeSpread ==
    /\ Taken
    /\ Listing
    /\ result.status = "returned"
    /\ items' = items \o [i \in DOMAIN result.value |-> Number(result.value[i])]
    /\ listed' = Append(listed, result.value)
    /\ UNCHANGED <<memo, passes, buffer>>

\* the control code LF is an item of the literal
ListLF ==
    /\ pc = "idle"
    /\ Listing
    /\ items' = Append(items, Number(LF))
    /\ listed' = Append(listed, <<LF>>)
    /\ UNCHANGED <<pc, fn, args, result, console, mode, memo, transport, passes, buffer>>

\* the literal so far is flattened into an array of its own, as init is, and
\* a new literal begins with that array spread into it
Reassemble ==
    /\ pc = "idle"
    /\ ~buffer.made
    /\ \E i \in DOMAIN items : items[i].kind = "array"
    /\ items' = [i \in DOMAIN flat(items) |-> Number(flat(items)[i])]
    /\ passes' = passes + 1
    /\ UNCHANGED <<pc, fn, args, result, console, mode, memo, transport, listed, buffer>>

\* Buffer.from([...].flat())
Assemble ==
    /\ pc = "idle"
    /\ ~buffer.made
    /\ buffer' = [made |-> TRUE, bytes |-> BufferFrom(flat(items))]
    /\ UNCHANGED <<pc, fn, args, result, console, mode, memo, transport, items, listed, passes>>

\* selectCharacterSize as the print script calls it
ScriptSelectCharacterSize ==
    /\ pc = "idle"
    /\ \E size \in {1, 2} :
           Call("selectCharacterSize", <<size, size>>, selectCharacterSize(size, size))
               /\ UNCHANGED <<console, untouched>>

NextAssembler ==
    \/ CallBold
    \/ ScriptSelectCharacterSize
    \/ Return
    \/ TakeNested
    \/ TakeSpread
    \/ ListLF
    \/ Reassemble
    \/ Assemble

SpecAssembler == Init /\ [][NextAssembler]_vars

\* the USB transport alone
NextUSB ==
    \/ constructor
    \/ detach
    \/ open
    \/ CallWrite
    \/ close

SpecUSB == Init /\ [][NextUSB]_vars

\* the bit-image mode encoder alone, up to the longest strips
CallSelectBitImageModeExtreme ==
    /\ pc = "idle"
    /\ \E vd \in {8, 24} :
           \E data \in ExtremeStrips(vd) :
               Call("selectBitImageMode", <<vd, AbsentName, data>>,
                    selectBitImageMode(vd, AbsentName, data))
               /\ UNCHANGED <<console, untouched>>

NextBitImage ==
    \/ CallSelectBitImageMode
    \/ CallSelectBitImageModeExtreme
    \/ Return

SpecBitImage == Init /\ [][NextBitImage]_vars

----------------------------------------------------------------------------
(* An image converted and printed *)

CallConvertImageToRasterBitImage ==
    /\ pc = "idle"
    /\ \E png \in ImageArgs :
           Call("convertImageToRasterBitImage", <<png>>, convertImageToRasterBitImage(png))
    /\ UNCHANGED <<console, untouched>>

CallConvertImageToRasterBitImageExtreme ==
    /\ pc = "idle"
    /\ \E png \in ExtremeImages :
           Call("convertImageToRasterBitImage", <<png>>, convertImageToRasterBitImage(png))
    /\ UNCHANGED <<console, untouched>>

\* printRasterBitImage(convertImageToRasterBitImage(png)): the converter's
\* result is the encoder's argument
PrintConverted ==
    /\ pc = "done"
    /\ fn = "convertImageToRasterBitImage"
    /\ result.status = "returned"
    /\ Call("printRasterBitImage", <<result.value, Undefined, Undefined>>,
            printRasterBitImage(result.value, Undefined, Undefined))
    /\ UNCHANGED <<console, untouched>>

NextImage ==
    \/ CallConvertImageToRasterBitImage
    \/ CallConvertImageToRasterBitImageExtreme
    \/ PrintConverted
    \/ Return

SpecImage == Init /\ [][NextImage]_vars

\* the raster image encoder alone, up to the largest grids
NextRaster ==
    \/ CallPrintRasterBitImage
    \/ CallPrintRasterBitImageExtreme
    \/ Return

SpecRaster == Init /\ [][NextRaster]_vars

----------------------------------------------------------------------------
(* The numeric codec over its whole range: byteSplit as the encoder's      *)
(* functions call it, and the two relative-position commands               *)

CallByteSplit ==
    /\ pc = "idle"
    /\ \E n \in AllWordArgs :
           Call("byteSplit", <<n>>, byteSplit(n)) /\ UNCHANGED <<console, untouched>>

SweepSetRelativePrintPosition ==
    /\ pc = "idle"
    /\ \E d \in AllOffsetArgs :
           Call("setRelativePrintPosition", <<d>>, setRelativePrintPosition(d))
               /\ UNCHANGED <<console, untouched>>

SweepSetRelativeVerticalPrintPositionInPageMode ==
    /\ pc = "idle"
    /\ \E d \in AllOffsetArgs :
           Call("setRelativeVerticalPrintPositionInPageMode", <<d>>,
                setRelativeVerticalPrintPositionInPageMode(d))
               /\ UNCHANGED <<console, untouched>>

NextCodec ==
    \/ CallByteSplit
    \/ SweepSetRelativePrintPosition
    \/ SweepSetRelativeVerticalPrintPositionInPageMode
    \/ Return

SpecCodec == Init /\ [][NextCodec]_vars

----------------------------------------------------------------------------
(* Properties *)

Byte == 0..255

\* the number a two-byte little-endian field stands for
compose(low, high) == low + 256 * high

\* C4: byteSplit returns, for every integer n in [0, 65535], the pair
\* (low, high) with low = n mod 256 and high = floor(n / 256), both bytes;
\* for every other n it throws and returns nothing.
C4_ByteSplitPair ==
    (pc = "done" /\ fn = "byteSplit") =>
        LET n == args[1]
        IN  IF n \in 0..65535
            THEN /\ result.status = "returned"
                 /\ Len(result.value) = 2
                 /\ LET low == result.value[1]
                        high == result.value[2]
                    IN  /\ low \in Byte
                        /\ high \in Byte
                        /\ \E q \in 0..255 : n = 256 * q + low
                        /\ 256 * high <= n
                        /\ n < 256 * (high + 1)
            ELSE result = Threw

C4_Witness ==
    /\ pc = "done"
    /\ fn = "byteSplit"
    /\ args = <<4660>>
    /\ result = Returned(<<52, 18>>)

\* C5: for every n in [0, 65535], low + 256 * high of byteSplit(n) is n again.
C5_RoundTrip ==
    (pc = "done" /\ fn = "byteSplit" /\ args[1] \in 0..65535) =>
        /\ result.status = "returned"
        /\ compose(result.value[1], result.value[2]) = args[1]

C5_Witness ==
    /\ pc = "done"
    /\ fn = "byteSplit"
    /\ args = <<65535>>
    /\ result.status = "returned"
    /\ compose(result.value[1], result.value[2]) = 65535

RelativeOpcode(f) ==
    IF f = "setRelativePrintPosition" THEN <<ESC, 92>> ELSE <<GS, 92>>

\* C6: for every d in [-32768, 32767], each of the two relative-position
\* commands returns its opcode followed by byteSplit(d + 32768), so that
\* (low + 256 * high) - 32768 is d; for every other d both throw.
C6_SignedOffsetRoundTrip ==
    (/\ pc = "done"
     /\ fn \in {"setRelativePrintPosition", "setRelativeVerticalPrintPositionInPageMode"})
    =>
        LET d == args[1]
        IN  IF d \in -32768..32767
            THEN /\ result.status = "returned"
                 /\ Len(result.value) = 4
                 /\ SubSeq(result.value, 1, 2) = RelativeOpcode(fn)
                 /\ SubSeq(result.value, 3, 4) = byteSplit(d + 32768).value
                 /\ result.value[3] \in Byte
                 /\ result.value[4] \in Byte
                 /\ compose(result.value[3], result.value[4]) - 32768 = d
            ELSE result = Threw

C6_Witness ==
    /\ pc = "done"
    /\ fn = "setRelativeVerticalPrintPositionInPageMode"
    /\ args = <<-1>>
    /\ result = Returned(<<GS, 92, 255, 127>>)

\* the values the protocol allows for the numeric parameters of a command, in
\* order (a parameter left out takes its default first)
Domain(f) ==
    CASE f = "setRightSideCharacterSpacing" -> <<Byte>>
      [] f = "setAbsolutePrintPosition" -> <<0..65535>>
      [] f = "setLineSpacing" -> <<Byte>>
      [] f = "cancelUserDefinedCharacters" -> <<32..126>>
      [] f = "printAndFeedPaper" -> <<Byte>>
      [] f = "selectStandardMode" -> <<Byte>>
      [] f = "selectPrintDirectionInPageMode" -> <<0..3>>
      [] f = "setPrintAreaInPageMode" -> <<0..65535, 0..65535, 0..65535, 0..65535>>
      [] f = "setRelativePrintPosition" -> <<-32768..32767>>
      [] f = "printAndFeedLines" -> <<1..255>>
      [] f = "selectCharacterSize" -> <<1..8, 1..8>>
      [] f = "setAbsoluteVerticalPrintPositionInPageMode" -> <<0..65535>>
      [] f = "setLeftMargin" -> <<0..65535>>
      [] f = "setHorizontalAndVerticalMotionUnits" -> <<Byte, Byte>>
      [] f = "cut" -> <<Byte>>
      [] f = "setPrintAreaWidth" -> <<0..65535>>
      [] f = "setRelativeVerticalPrintPositionInPageMode" -> <<-32768..32767>>
      [] f = "setBarcodeHeight" -> <<1..255>>
      [] OTHER -> <<>>

\* the declared default of parameter i of f, Undefined when it has none
DefaultOf(f, i) ==
    CASE f \in {"setRightSideCharacterSpacing", "printAndFeedPaper", "cut",
                "setPrintAreaWidth"} -> 0
      [] f = "selectCharacterSize" -> 1
      [] OTHER -> Undefined

\* the commands whose parameter may be left out without a default taking its place
OptionalCommands == {"setLineSpacing"}

OutOfDomain(f, a) ==
    \E i \in DOMAIN Domain(f) :
        /\ ~(a[i] = Undefined /\ f \in OptionalCommands)
        /\ Default(a[i], DefaultOf(f, i)) \notin Domain(f)[i]

\* C1: a command called with an argument outside its domain throws and
\* returns no byte sequence.
C1_OutOfDomainThrows ==
    (pc = "done" /\ OutOfDomain(fn, args)) => result = Threw

\* the mapping table of a command that encodes an enumerated choice
TableKeys(f) ==
    CASE f \in {"selectFont", "selectFontForBarcodeHriCharacters"} -> DOMAIN fontMap
      [] f = "selectJustification" -> {justifications[i] : i \in DOMAIN justifications}
      [] f = "selectCharacterCodeTable" -> DOMAIN characterCodeTableMap
      [] f = "selectInternationalCharacterSet" -> DOMAIN internationalCharacterSetMap
      [] f = "selectPrintPositionOfBarcodeHriCharacters" ->
             DOMAIN printPositionOfHriCharactersMap

EnumCommands ==
    {"selectFont", "selectFontForBarcodeHriCharacters", "selectJustification",
     "selectCharacterCodeTable", "selectInternationalCharacterSet",
     "selectPrintPositionOfBarcodeHriCharacters"}

\* C2: a symbolic name that is no key of the command's mapping table makes
\* the call throw; no byte sequence is returned for it.
C2_UnknownNameThrows ==
    (/\ pc = "done"
     /\ fn \in EnumCommands
     /\ args[1] # AbsentName
     /\ args[1] \notin TableKeys(fn))
    => result = Threw

\* C3: for width and height in [1, 8], selectCharacterSize returns
\* [GS, 0x21, n] with n one byte, width - 1 in its high nibble and height - 1
\* in its low nibble; (2, 2) gives 0x11.
C3_CharacterSizeNibbles ==
    (pc = "done" /\ fn = "selectCharacterSize") =>
        LET width == Default(args[1], 1)
            height == Default(args[2], 1)
        IN  (width \in 1..8 /\ height \in 1..8) =>
                /\ result.status = "returned"
                /\ Len(result.value) = 3
                /\ result.value[1] = GS
                /\ result.value[2] = 33
                /\ result.value[3] \in Byte
                /\ result.value[3] \div 16 = width - 1
                /\ result.value[3] % 16 = height - 1

----------------------------------------------------------------------------
(* Properties of the raster image encoder *)

\* bit j of a byte, bit 7 the most significant
Bit(byte, j) == (byte \div (2 ^ j)) % 2

\* the least k with 8 * k >= w (\div rounds down, also below 0)
CeilDiv8(w) == -((-w) \div 8)

IsRectangular(data) ==
    /\ Len(data) \in 1..65535
    /\ Len(data[1]) \in 1..65535
    /\ \A r \in DOMAIN data : Len(data[r]) = Len(data[1])

\* C7: each row is packed 8 pixels per byte, the leftmost pixel in the most
\* significant bit, and the bits of the last byte beyond the row's width are 0.
C7_RowsPackedMsbFirst ==
    (pc = "done" /\ fn = "printRasterBitImage" /\ result.status = "returned") =>
        LET data == args[1]
            w == Len(data[1])
            wb == CeilDiv8(w)
        IN  \A r \in DOMAIN data : \A c \in 1..wb :
                LET byte == result.value[8 + (r - 1) * wb + c]
                IN  \A j \in 0..7 :
                        LET x == 8 * (c - 1) + j + 1
                        IN  Bit(byte, 7 - j) =
                                IF x <= w /\ Truthy(data[r][x]) THEN 1 ELSE 0

C7_Witness ==
    /\ pc = "done"
    /\ fn = "printRasterBitImage"
    /\ args[1] = [r \in 1..2 |-> [i \in 1..9 |-> 1]]
    /\ result.status = "returned"
    /\ SubSeq(result.value, 9, Len(result.value)) = <<255, 128, 255, 128>>

\* C8: for a valid grid of width w and height h the result is
\* [GS, 0x76, 0x30, m, wL, wH, hL, hH] and then the bitmap, m being
\* 2 * (verticalScale - 1) + (horizontalScale - 1) in 0..3, (wL, wH) being
\* ceil(w / 8) and (hL, hH) being h, low byte first, 8 + ceil(w / 8) * h
\* elements in all.
C8_RasterHeader ==
    (pc = "done" /\ fn = "printRasterBitImage" /\ IsRectangular(args[1])) =>
        LET w == Len(args[1][1])
            h == Len(args[1])
            verticalScale == Default(args[2], 1)
            horizontalScale == Default(args[3], 1)
            m == 2 * (verticalScale - 1) + (horizontalScale - 1)
            v == result.value
        IN  /\ result.status = "returned"
            /\ Len(v) = 8 + CeilDiv8(w) * h
            /\ SubSeq(v, 1, 4) = <<GS, 118, 48, m>>
            /\ m \in 0..3
            /\ \A i \in 5..8 : v[i] \in Byte
            /\ compose(v[5], v[6]) = CeilDiv8(w)
            /\ compose(v[7], v[8]) = h

C8_Witness ==
    /\ pc = "done"
    /\ fn = "printRasterBitImage"
    /\ Len(args[1]) = 2
    /\ Len(args[1][1]) = 9
    /\ args[2] = 2
    /\ args[3] = 1
    /\ result.status = "returned"
    /\ SubSeq(result.value, 1, 8) = <<GS, 118, 48, 2, 2, 0, 2, 0>>
    /\ Len(result.value) = 12

\* C9: printRasterBitImage throws for a grid with no row, with an empty
\* first row, with 65536 or more rows or columns, or with a row whose length
\* is not the first row's; it returns for every rectangular grid with width
\* and height in [1, 65535].
C9_RasterValidation ==
    (pc = "done" /\ fn = "printRasterBitImage") =>
        LET data == args[1]
        IN  /\ Len(data) = 0 => result = Threw
            /\ Len(data) >= 65536 => result = Threw
            /\ (Len(data) >= 1 /\ Len(data[1]) = 0) => result = Threw
            /\ (Len(data) >= 1 /\ Len(data[1]) >= 65536) => result = Threw
            /\ (\E r \in DOMAIN data : Len(data[r]) # Len(data[1])) => result = Threw
            /\ IsRectangular(data) => result.status = "returned"

C9_Witness ==
    /\ pc = "done"
    /\ fn = "printRasterBitImage"
    /\ args[1] = <<<<1, 1>>, <<1>>>>
    /\ result = Threw

----------------------------------------------------------------------------
(* Properties of the bit-image mode encoder *)

\* C10: selectBitImageMode takes a vertical density of 8 or 24 and throws for
\* every other; with 24 it throws when 3 does not divide the strip's length;
\* with 8 every length is taken.
C10_BitImageDensity ==
    (pc = "done" /\ fn = "selectBitImageMode" /\ args[3] # AbsentArray) =>
        LET verticalDensity == Default(args[1], 8)
            length == Len(args[3])
        IN  /\ verticalDensity \notin {8, 24} => result = Threw
            /\ (verticalDensity = 24 /\ length % 3 # 0) => result = Threw
            /\ (verticalDensity = 24 /\ length % 3 = 0 /\ length <= 3 * 65535)
                   => result.status = "returned"
            /\ (verticalDensity = 8 /\ length <= 65535) => result.status = "returned"

C10_Witness ==
    /\ pc = "done"
    /\ fn = "selectBitImageMode"
    /\ args[1] = 24
    /\ Len(args[3]) = 4
    /\ result = Threw

\* C11: for every input it takes, selectBitImageMode returns ESC, 0x2a, m, nL,
\* nH and then the strip's bytes unchanged and in order, where m is 32 for
\* density 24 (0 for 8) plus 1 for double horizontal density, and nL, nH are
\* the low and high byte of the column count: the strip's length for density 8
\* and a third of it for density 24.  A strip of more than 65535 columns makes
\* the call throw.
C11_BitImageHeader ==
    (pc = "done" /\ fn = "selectBitImageMode" /\ args[3] # AbsentArray) =>
        LET verticalDensity == Default(args[1], 8)
            horizontalDensity == DefaultName(args[2], "single")
            data == args[3]
            columns == Len(data) \div (IF verticalDensity = 24 THEN 3 ELSE 1)
            m == (IF verticalDensity = 24 THEN 32 ELSE 0)
                 + (IF horizontalDensity = "double" THEN 1 ELSE 0)
        IN  /\ result.status = "returned" =>
                   /\ Len(result.value) = 5 + Len(data)
                   /\ result.value[1] = ESC /\ result.value[2] = 42
                   /\ result.value[3] = m
                   /\ result.value[4] \in Byte /\ result.value[5] \in Byte
                   /\ compose(result.value[4], result.value[5]) = columns
                   /\ result.value = <<ESC, 42, m, result.value[4], result.value[5]>> \o data
            /\ (verticalDensity \in {8, 24} /\ columns > 65535) => result = Threw

C11_Witness ==
    /\ pc = "done"
    /\ fn = "selectBitImageMode"
    /\ args = <<24, "double", <<255, 0, 255>>>>
    /\ result = Returned(<<ESC, 42, 33, 1, 0, 255, 0, 255>>)

\* a strip of 65536 columns at density 24 is refused
C11_WitnessTooLong ==
    /\ pc = "done"
    /\ fn = "selectBitImageMode"
    /\ args[1] = 24
    /\ Len(args[3]) = 3 * 65536
    /\ result = Threw

----------------------------------------------------------------------------
(* Properties of the barcode encoder *)

IsDigit(c) == \E d \in DOMAIN Digits : Digits[d] = c

\* the value 0..9 of a digit character
DigitValue(c) == (CHOOSE d \in DOMAIN Digits : Digits[d] = c) - 1

\* C12: for every payload of exactly 11 digits, printBarcodeUpcA returns
\* exactly 15 bytes: GS, 0x6b, 65, 11 and then the 11 character codes of the
\* digits in order (48 + the digit's value); no check digit is appended.
C12_UpcAEncoding ==
    (/\ pc = "done"
     /\ fn = "printBarcodeUpcA"
     /\ Len(args[1]) = 11
     /\ \A i \in 1..11 : IsDigit(args[1][i])) =>
        /\ result.status = "returned"
        /\ Len(result.value) = 15
        /\ SubSeq(result.value, 1, 4) = <<29, 107, 65, 11>>
        /\ \A i \in 1..11 : result.value[4 + i] = 48 + DigitValue(args[1][i])

C12_Witness ==
    /\ pc = "done"
    /\ fn = "printBarcodeUpcA"
    /\ args[1] = <<"1", "2", "3", "4", "5", "6", "7", "8", "9", "0", "1">>
    /\ result = Returned(<<29, 107, 65, 11, 49, 50, 51, 52, 53, 54, 55, 56, 57, 48, 49>>)

\* C13: printBarcodeUpcA throws for every payload whose length is not 11 and
\* for every payload of 11 characters one of which is no digit.
C13_UpcAValidation ==
    (pc = "done" /\ fn = "printBarcodeUpcA") =>
        /\ Len(args[1]) # 11 => result = Threw
        /\ (\E i \in DOMAIN args[1] : ~IsDigit(args[1][i])) => result = Threw

\* the payload "1234567890a" is refused
C13_Witness ==
    /\ pc = "done"
    /\ fn = "printBarcodeUpcA"
    /\ args[1] = <<"1", "2", "3", "4", "5", "6", "7", "8", "9", "0", "a">>
    /\ result = Threw

\* the payload "1234567890" is refused
C13_WitnessShort ==
    /\ pc = "done"
    /\ fn = "printBarcodeUpcA"
    /\ args[1] = <<"1", "2", "3", "4", "5", "6", "7", "8", "9", "0">>
    /\ result = Threw

----------------------------------------------------------------------------
(* Properties of the cut and tab-stop encoders *)

\* C14: cut() and cut(0) return GS, 0x56, 1; for a feed f of 1..255, cut(f)
\* returns GS, 0x56, 65, f; a feed below 0 or above 255 throws.
C14_CutVariants ==
    (pc = "done" /\ fn = "cut") =>
        /\ args[1] \in {Undefined, 0} => result = Returned(<<29, 86, 1>>)
        /\ args[1] \in 1..255 => result = Returned(<<29, 86, 65, args[1]>>)
        /\ (args[1] # Undefined /\ (args[1] < 0 \/ args[1] > 255)) => result = Threw

C14_Witness ==
    /\ pc = "done"
    /\ fn = "cut"
    /\ args = <<0>>
    /\ result = Returned(<<29, 86, 1>>)

C14_WitnessFeed ==
    /\ pc = "done"
    /\ fn = "cut"
    /\ args = <<255>>
    /\ result = Returned(<<29, 86, 65, 255>>)

\* C15: setHorizontalTabPositions takes a list of at most 32 entries, each in
\* 1..255, and returns ESC, 0x44, the entries in order and a closing 0 (the
\* entries and 3 more bytes); it throws for more than 32 entries and for an
\* entry outside 1..255; with no argument it returns the 31 default stops
\* 8, 16, ... 248.
C15_TabStops ==
    (pc = "done" /\ fn = "setHorizontalTabPositions") =>
        LET tabStops == args[1]
            inRange == \A i \in DOMAIN tabStops : tabStops[i] \in 1..255
        IN  /\ (tabStops # AbsentArray /\ Len(tabStops) <= 32 /\ inRange) =>
                   /\ result.status = "returned"
                   /\ Len(result.value) = Len(tabStops) + 3
                   /\ result.value[1] = 27 /\ result.value[2] = 68
                   /\ \A i \in DOMAIN tabStops : result.value[2 + i] = tabStops[i]
                   /\ result.value[Len(tabStops) + 3] = 0
            /\ (tabStops # AbsentArray /\ Len(tabStops) > 32) => result = Threw
            /\ (tabStops # AbsentArray /\ ~inRange) => result = Threw
            /\ tabStops = AbsentArray =>
                   /\ result.status = "returned"
                   /\ Len(result.value) = 34
                   /\ result.value[1] = 27 /\ result.value[2] = 68
                   /\ \A i \in 1..31 : result.value[2 + i] = 8 * i
                   /\ result.value[34] = 0

\* a list of exactly 32 entries is taken
C15_Witness ==
    /\ pc = "done"
    /\ fn = "setHorizontalTabPositions"
    /\ Len(args[1]) = 32
    /\ result.status = "returned"
    /\ Len(result.value) = 35

C15_WitnessTooMany ==
    /\ pc = "done"
    /\ fn = "setHorizontalTabPositions"
    /\ Len(args[1]) = 33
    /\ result = Threw

----------------------------------------------------------------------------
(* Properties of the encoder as a whole *)

\* C16: encoding is deterministic and independent of history: what a call
\* returns depends on its own arguments only, never on the commands encoded
\* before it (selectPageMode and selectStandardMode included), so a call made
\* again with the same arguments, after any other calls, in whichever mode and
\* with whatever on the console, has the outcome it had the first time.
C16_HistoryIndependent ==
    (pc = "done" /\ memo.fn = fn /\ memo.args = args) => result = memo.result

\* selectPageMode called in Standard mode, and again in Page mode
C16_Witness ==
    /\ pc = "done"
    /\ fn = "selectPageMode"
    /\ memo.fn = "selectPageMode"
    /\ memo.mode = "Standard"
    /\ mode = "Page"
    /\ result = Returned(<<27, 76>>)
    /\ memo.result = result

\* the commands that act in Page mode only
PageOnlyCommands ==
    {"cancelPrintDataInPageMode", "printDataInPageMode",
     "printAndReturnToStandardModeInPageMode",
     "setAbsoluteVerticalPrintPositionInPageMode"}

\* C17 as written: the printer's mode is one of Standard and Page, and every
\* call is validated against it: a Page-only command encoded in Standard mode
\* throws, and so does selectPageMode encoded in Page mode.
C17_ModeValidated ==
    /\ mode \in {"Standard", "Page"}
    /\ (pc = "done" /\ fn \in PageOnlyCommands /\ mode = "Standard") => result = Threw
    /\ (pc = "done" /\ fn = "selectPageMode" /\ mode = "Page") => result = Threw

\* C17, amended: the printer's mode is one of Standard and Page, and the
\* encoder validates no call against it: in either mode the Page-only
\* commands and selectPageMode return their bytes, and the one of them that
\* takes an argument throws for the arguments it throws for in Page mode.
C17_ModeNotValidated ==
    /\ mode \in {"Standard", "Page"}
    /\ pc = "done" =>
           /\ fn = "cancelPrintDataInPageMode" => result = Returned(<<24>>)
           /\ fn = "printDataInPageMode" => result = Returned(<<27, 12>>)
           /\ fn = "printAndReturnToStandardModeInPageMode" => result = Returned(<<12>>)
           /\ fn = "selectPageMode" => result = Returned(<<27, 76>>)
           /\ fn = "setAbsoluteVerticalPrintPositionInPageMode" =>
                  IF args[1] \in 0..65535
                  THEN result = Returned(<<29, 36, args[1] % 256, args[1] \div 256>>)
                  ELSE result = Threw

\* a Page-only command encoded while the printer is in Standard mode
C17_Witness ==
    /\ pc = "done"
    /\ fn = "printDataInPageMode"
    /\ mode = "Standard"
    /\ result = Returned(<<27, 12>>)

\* selectPageMode encoded while the printer is in Page mode
C17_WitnessPage ==
    /\ pc = "done"
    /\ fn = "selectPageMode"
    /\ mode = "Page"
    /\ result = Returned(<<27, 76>>)

\* C19: no encoder function performs input or output or has any other side
\* effect: every call, cut() with its default argument included, leaves the
\* console and everything else outside the call as it was.
C19_NoSideEffect ==
    [][(pc = "idle" /\ pc' = "done") => UNCHANGED <<console, untouched>>]_vars

----------------------------------------------------------------------------
(* Properties of the buffer assembler *)

RECURSIVE Concatenation(_)
\* the sequences of a list one after the other, in the list's order
Concatenation(list) ==
    IF list = <<>> THEN <<>>
    ELSE Concatenation(SubSeq(list, 1, Len(list) - 1)) \o list[Len(list)]

\* C18: the buffer assembler preserves order and is associative: the buffer
\* is the concatenation of the byte sequences in the order the caller listed
\* them, whether a command was listed as a nested array or spread, and
\* whether the literal was assembled in one pass or an earlier part of it was
\* flattened first and the rest listed after it.
C18_AssemblyInOrder ==
    buffer.made =>
        LET all == Concatenation(listed)
        IN  /\ Len(buffer.bytes) = Len(all)
            /\ \A i \in DOMAIN all : all[i] \in Byte => buffer.bytes[i] = all[i]

\* init, bold() and bold(false) flattened first, then LF listed after them
C18_Witness ==
    /\ buffer.made
    /\ passes = 1
    /\ listed = <<init, <<27, 69, 1>>, <<27, 69, 0>>, <<10>>>>
    /\ items[Len(items)] = Number(10)
    /\ buffer.bytes = <<27, 64, 28, 46, 27, 77, 0, 27, 69, 1, 27, 69, 0, 10>>

----------------------------------------------------------------------------
(* Properties of the USB transport *)

\* C20: while no output endpoint is set for an instance (open was never
\* called, or it found no device, no interfaces or no 'out' endpoint),
\* write(data) invokes the callback once, with an error, and starts no
\* transfer; once an endpoint is set, write starts exactly one transfer, of
\* data on that endpoint with the caller's callback, and invokes nothing
\* itself.
C20_WriteNeedsEndpoint ==
    /\ \A i \in Instances :
           opened[i] \in {"never", "no device", "no interfaces", "no endpoint", "threw"}
               <=> endpoint[i] = NoEndpoint
    /\ op.name = "write" =>
           LET i == op.instance
               target == IF op.callback = "absent" THEN "logError" ELSE op.callback
           IN  IF endpoint[i] = NoEndpoint
               THEN /\ calls = <<[cb |-> target, error |-> TRUE]>>
                    /\ transfers = <<>>
               ELSE /\ calls = <<>>
                    /\ Len(transfers) = 1
                    /\ transfers[1].endpoint = endpoint[i]
                    /\ transfers[1].data = op.data
                    /\ transfers[1].cb = target

\* a write after an open that found no 'out' endpoint
C20_Witness ==
    /\ op.name = "write"
    /\ op.callback = "callback"
    /\ opened[op.instance] = "no endpoint"
    /\ device[op.instance] = "d1"
    /\ endpoint[op.instance] = NoEndpoint
    /\ calls = <<[cb |-> "callback", error |-> TRUE]>>
    /\ transfers = <<>>

\* a write after an open that set the endpoint
C20_WitnessTransfer ==
    /\ op.name = "write"
    /\ op.callback = "callback"
    /\ endpoint[op.instance] = [device |-> "d1", interface |-> 2]
    /\ calls = <<>>
    /\ transfers = <<[endpoint |-> [device |-> "d1", interface |-> 2],
                      data |-> <<27, 64>>, cb |-> "callback"]>>

----------------------------------------------------------------------------
(* Properties of the print-mode, print-direction and defaulted commands *)

\* C21: selectPrintModes encodes ESC ! as its documentation states: it
\* returns ESC, 0x21, n where bit 0 of n is set iff the font is B, bit 3 iff
\* emphasised, bit 4 iff doubleHeight, bit 5 iff doubleWidth and bit 7 iff
\* underline; the opcode is not the 0x20 of ESC SP.
C21_PrintModeBits ==
    (pc = "done" /\ fn = "selectPrintModes" /\ args[1] \in DOMAIN fontMap) =>
        /\ result.status = "returned"
        /\ Len(result.value) = 3
        /\ result.value[1] = 27
        /\ result.value[2] = 33
        /\ result.value[3] \in Byte
        /\ Bit(result.value[3], 0) = 1 <=> args[1] = "B"
        /\ Bit(result.value[3], 3) = 1 <=> args[2]
        /\ Bit(result.value[3], 4) = 1 <=> args[3]
        /\ Bit(result.value[3], 5) = 1 <=> args[4]
        /\ Bit(result.value[3], 7) = 1 <=> args[5]

\* C22: selectPrintDirectionInPageMode takes each of the four directions
\* 0, 1, 2 and 3 and returns ESC, 0x54, n for it; it throws for every other n.
C22_PrintDirections ==
    (pc = "done" /\ fn = "selectPrintDirectionInPageMode") =>
        IF args[1] \in 0..3
        THEN result = Returned(<<27, 84, args[1]>>)
        ELSE result = Threw

\* the commands that declare a default value for their parameters
DefaultedCommands ==
    {"setRightSideCharacterSpacing", "printAndFeedPaper", "cut", "selectCharacterSize",
     "setPrintAreaWidth", "setLineSpacing", "underline", "selectJustification",
     "setHorizontalTabPositions"}

\* the arguments of a call f() that passes none
NoArguments(f) ==
    CASE f = "selectCharacterSize" -> <<Undefined, Undefined>>
      [] f = "underline" -> <<FALSE, Undefined>>
      [] f = "selectJustification" -> <<AbsentName>>
      [] f = "setHorizontalTabPositions" -> <<AbsentArray>>
      [] OTHER -> <<Undefined>>

\* C23: every command that declares a default value for a parameter returns
\* a byte sequence when it is called without that argument.
C23_DefaultsSucceed ==
    (pc = "done" /\ fn \in DefaultedCommands /\ args = NoArguments(fn)) =>
        result.status = "returned"

\* C24: every element of every sequence an encoder function returns is an
\* integer in 0..255: none is negative, above 255 or undefined.
C24_ByteRange ==
    (pc = "done" /\ result.status = "returned") =>
        \A i \in DOMAIN result.value : result.value[i] \in Byte

----------------------------------------------------------------------------
(* Properties of open, detach and close *)

\* C25: open invokes its callback exactly once per call: with no argument
\* when an 'out' endpoint was claimed and stored, with one error otherwise;
\* whatever the device, its interface list, the interfaces whose claim()
\* throws and the interfaces with or without an 'out' endpoint.
C25_OpenCallsBackOnce ==
    (op.name = "open" /\ ~op.threw) =>
        /\ Len(calls) = 1
        /\ ~calls[1].error => endpoint[op.instance] # NoEndpoint
        /\ calls[1].error => opened[op.instance] # "endpoint"

\* C26: once the detach of an instance's own device has been handled and its
\* device is undefined, a write on the instance reports an error through the
\* callback and starts no transfer.
C26_WriteAfterDetach ==
    (op.name = "write" /\ device[op.instance] = NoDevice) =>
        /\ calls = <<[cb |-> cb(op.callback), error |-> TRUE]>>
        /\ transfers = <<>>

\* C27: with two instances alive, close() on one leaves the other's detach
\* tracking intact: the other instance still listens for 'detach' after the
\* close, and a detach of its device resets its device to undefined.
C27_CloseKeepsOthersListening ==
    [][/\ op'.name = "close" =>
              \A i \in listeners : i # op'.instance => i \in listeners'
       /\ op'.name = "detach" =>
              \A i \in listeners :
                  device[i] \in attached \ attached' => device'[i] = NoDevice]_vars

----------------------------------------------------------------------------
(* Properties of the image converter *)

\* the red byte of the pixel in column x of row y, Undefined when the data
\* ends before it
Red(png, x, y) ==
    LET n == 4 * ((y - 1) * png.width + (x - 1)) + 1
    IN  IF n <= Len(png.data) THEN png.data[n] ELSE Undefined

\* what a call of convertImageToRasterBitImage returned is the image's
\* height rows of width cells, a cell 1 iff its pixel's red is 0 or missing
Converted ==
    (pc = "done" /\ fn = "convertImageToRasterBitImage") =>
        LET png == args[1]
            grid == result.value
        IN  /\ result.status = "returned"
            /\ Len(grid) = png.height
            /\ \A y \in 1..png.height :
                   /\ Len(grid[y]) = png.width
                   /\ \A x \in 1..png.width :
                          grid[y][x] = IF Red(png, x, y) \in {0, Undefined} THEN 1 ELSE 0

\* C28: for a decoded image of width w and height h,
\* convertImageToRasterBitImage returns exactly h rows of exactly w cells; a
\* cell is 1 iff the pixel's red byte is 0 or missing and 0 otherwise,
\* whatever its green, blue and alpha; and for w and h in 1..65535
\* printRasterBitImage, called with the result, returns.
C28_ImageConversion ==
    [][/\ Converted'
       /\ (/\ pc = "done"
           /\ fn = "convertImageToRasterBitImage"
           /\ fn' = "printRasterBitImage"
           /\ args'[1] = result.value
           /\ args[1].width \in 1..65535
           /\ args[1].height \in 1..65535) => result'.status = "returned"]_vars

\* a white pixel and a black one, with different green, blue and alpha,
\* converted
C28_Witness ==
    /\ pc = "done"
    /\ fn = "convertImageToRasterBitImage"
    /\ args[1] = [width |-> 2, height |-> 1, data |-> <<255, 0, 255, 0, 0, 0, 255, 0>>]
    /\ result = Returned(<<<<0, 1>>>>)

\* the converted pixels printed
C28_WitnessPrinted ==
    /\ pc = "done"
    /\ fn = "printRasterBitImage"
    /\ args = <<<<<<0, 1>>>>, Undefined, Undefined>>
    /\ result = Returned(<<29, 118, 48, 0, 1, 0, 1, 0, 64>>)

\* an image 65535 pixels wide, converted and printed
C28_WitnessWide ==
    /\ pc = "done"
    /\ fn = "printRasterBitImage"
    /\ Len(args[1]) = 1
    /\ Len(args[1][1]) = 65535
    /\ result.status = "returned"

====
